---- MODULE Spec2Model ----
(***************************************************************************)
(* Model of examples/python-demo/demo.py: main() runs a non-streaming chat *)
(* completion and then a streaming one against a proxy, each inside its    *)
(* own try/except.  The client is one sequential process (pc); the         *)
(* transport (the OpenAI client talking to the proxy) is the environment:  *)
(* it answers each blocking call with a result, a stream, a fragment,      *)
(* end-of-stream or a fault.                                               *)
(***************************************************************************)
EXTENDS Integers, Sequences, FiniteSets, TLC

\* ------------------------------------------------------------------ bounds
\* Longest fragment sequence the transport delivers on one stream.
MaxFrags == 3
\* Most choices a non-streaming result carries.
MaxChoices == 2

\* ------------------------------------------------------------ Python values
\* An optional value is a sequence of length <= 1: None / an unbound local
\* is <<>>, a present value v is <<v>>.
None == <<>>
Some(v) == <<v>>
Unbound == <<>>
Bound(v) == <<v>>
Val(x) == x[1]

\* Texts the backend may put into a non-streaming message.
Contents == {"", "q"}
\* Texts the backend may put into a streaming delta (the first fragment of a
\* real stream carries "").
Deltas == {"", "a", "aa", "b"}

\* completion.choices[i].message: missing, or a message whose content is None
\* or a text.
MessageContents == {None} \cup {Some(c) : c \in Contents}
Messages == {None} \cup {Some([content |-> c]) : c \in MessageContents}

\* str(x), as print applies it to an optional text: a text is printed as it
\* is, None as "None".
Str(x) == IF x = None THEN "None" ELSE Val(x)
Choices == [message : Messages]
Results == UNION {[1..n -> Choices] : n \in 0..MaxChoices}

\* chunk.choices: empty (malformed fragment), or one choice whose
\* delta.content is None or a text.
DeltaContents == {None} \cup {Some(d) : d \in Deltas}
Fragments == {[choices |-> <<>>]} \cup
             {[choices |-> <<[delta |-> [content |-> c]]>>] : c \in DeltaContents}

VARIABLES
    pc,            \* the statement of main() the client is at
    out,           \* process output: the sequence of things printed
    requests,      \* the requests submitted to the transport, in order
    completion,    \* local of main(): the non-streaming result
    stream,        \* the transport's stream: "none", "open", "exhausted", "broken"
    delivered,     \* the fragments the stream has delivered, in arrival order
    chunk,         \* local of main(): the loop variable
    content,       \* local of main()
    full_content,  \* local of main(): the accumulated text
    error,         \* local of an except clause: the caught exception
    ret            \* what main() returned, once it has

vars == <<pc, out, requests, completion, stream, delivered, chunk, content,
          full_content, error, ret>>

Line(k, t) == [k |-> k, text |-> t]

Init ==
    /\ pc = "start"
    /\ out = <<>>
    /\ requests = <<>>
    /\ completion = Unbound
    /\ stream = "none"
    /\ delivered = <<>>
    /\ chunk = Unbound
    /\ content = Unbound
    /\ full_content = Unbound
    /\ error = Unbound
    /\ ret = Unbound

\* ------------------------------------------------------------- test 1
\* lines 23-24
PrintBanner ==
    /\ pc = "start"
    /\ out' = out \o <<Line("banner", "TraceForge Demo App (Python)"),
                       Line("proxy", "Using proxy")>>
    /\ pc' = "t1_header"
    /\ UNCHANGED <<requests, completion, stream, delivered, chunk, content,
                   full_content, error, ret>>

\* line 27
BeginTest1 ==
    /\ pc = "t1_header"
    /\ out' = Append(out, Line("header1", "--- Test 1: Regular Chat Completion ---"))
    /\ pc' = "t1_call"
    /\ UNCHANGED <<requests, completion, stream, delivered, chunk, content,
                   full_content, error, ret>>

\* lines 29-37: the call is made and the client blocks in it
SubmitChat ==
    /\ pc = "t1_call"
    /\ requests' = Append(requests,
           [model |-> "gpt-3.5-turbo", max_tokens |-> 100, stream |-> FALSE])
    /\ pc' = "t1_wait"
    /\ UNCHANGED <<out, completion, stream, delivered, chunk, content,
                   full_content, error, ret>>

\* line 29: the call returns a result, which is bound to completion
ChatReturns(r) ==
    /\ pc = "t1_wait"
    /\ completion' = Bound(r)
    /\ pc' = "t1_print"
    /\ UNCHANGED <<out, requests, stream, delivered, chunk, content,
                   full_content, error, ret>>

\* line 29: the call raises; control goes to the except clause of line 41
ChatFault ==
    /\ pc = "t1_wait"
    /\ error' = Bound("APIConnectionError")
    /\ pc' = "t1_except"
    /\ UNCHANGED <<out, requests, completion, stream, delivered, chunk,
                   content, full_content, ret>>

\* PrintResponse coercing a missing choice or message to the empty text.
PrintResponse_CoerceEmpty ==
    /\ pc = "t1_print"
    /\ LET choices == Val(completion)
           text == IF Len(choices) = 0 \/ choices[1].message = None
                   THEN "" ELSE Str(Val(choices[1].message).content)
       IN  out' = Append(out, Line("response", "Response: " \o text))
    /\ pc' = "t1_ok"
    /\ UNCHANGED <<requests, completion, stream, delivered, chunk, content,
                   full_content, error, ret>>

\* PrintResponse reading the last choice (choices[-1]) instead of the first.
PrintResponse_LastChoice ==
    /\ pc = "t1_print"
    /\ LET choices == Val(completion) IN
       IF Len(choices) = 0
       THEN /\ error' = Bound("IndexError")
            /\ pc' = "t1_except"
            /\ out' = out
       ELSE IF choices[Len(choices)].message = None
       THEN /\ error' = Bound("AttributeError")
            /\ pc' = "t1_except"
            /\ out' = out
       ELSE /\ out' = Append(out,
                  Line("response",
                       "Response: " \o Str(Val(choices[Len(choices)].message).content)))
            /\ pc' = "t1_ok"
            /\ error' = error
    /\ UNCHANGED <<requests, completion, stream, delivered, chunk, content,
                   full_content, ret>>

\* line 39: completion.choices[0].message.content is evaluated (IndexError
\* on no choices, AttributeError on a missing message), then printed.
PrintResponse ==
    /\ pc = "t1_print"
    /\ LET choices == Val(completion) IN
       IF Len(choices) = 0
       THEN /\ error' = Bound("IndexError")
            /\ pc' = "t1_except"
            /\ out' = out
       ELSE IF choices[1].message = None
       THEN /\ error' = Bound("AttributeError")
            /\ pc' = "t1_except"
            /\ out' = out
       ELSE /\ out' = Append(out,
                  Line("response", "Response: " \o Str(Val(choices[1].message).content)))
            /\ pc' = "t1_ok"
            /\ error' = error
    /\ UNCHANGED <<requests, completion, stream, delivered, chunk, content,
                   full_content, ret>>

\* line 40
PrintSuccess1 ==
    /\ pc = "t1_ok"
    /\ out' = Append(out, Line("ok1", "Regular request successful!"))
    /\ pc' = "t2_header"
    /\ UNCHANGED <<requests, completion, stream, delivered, chunk, content,
                   full_content, error, ret>>

\* Except1 with a return in the except clause: test 2 is skipped.
Except1_Return ==
    /\ pc = "t1_except"
    /\ out' = Append(out, Line("err", "Error: " \o Val(error)))
    /\ error' = Unbound
    /\ pc' = "final"
    /\ UNCHANGED <<requests, completion, stream, delivered, chunk, content,
                   full_content, ret>>

\* lines 41-42 (the name error is unbound when the clause ends)
Except1 ==
    /\ pc = "t1_except"
    /\ out' = Append(out, Line("err", "Error: " \o Val(error)))
    /\ error' = Unbound
    /\ pc' = "t2_header"
    /\ UNCHANGED <<requests, completion, stream, delivered, chunk, content,
                   full_content, ret>>

\* ------------------------------------------------------------- test 2
\* line 45
BeginTest2 ==
    /\ pc = "t2_header"
    /\ out' = Append(out, Line("header2", "--- Test 2: Streaming Chat Completion ---"))
    /\ pc' = "t2_call"
    /\ UNCHANGED <<requests, completion, stream, delivered, chunk, content,
                   full_content, error, ret>>

\* lines 47-56
SubmitChatStream ==
    /\ pc = "t2_call"
    /\ requests' = Append(requests,
           [model |-> "gpt-3.5-turbo", max_tokens |-> 50, stream |-> TRUE])
    /\ pc' = "t2_wait"
    /\ UNCHANGED <<out, completion, stream, delivered, chunk, content,
                   full_content, error, ret>>

\* line 47: the call returns the stream object
StreamOpens ==
    /\ pc = "t2_wait"
    /\ stream' = "open"
    /\ pc' = "t2_init"
    /\ UNCHANGED <<out, requests, completion, delivered, chunk, content,
                   full_content, error, ret>>

\* line 47: the call raises; control goes to the except clause of line 68
StreamOpenFault ==
    /\ pc = "t2_wait"
    /\ error' = Bound("APIConnectionError")
    /\ pc' = "t2_except"
    /\ UNCHANGED <<out, requests, completion, stream, delivered, chunk,
                   content, full_content, ret>>

\* line 58
InitBuffer ==
    /\ pc = "t2_init"
    /\ full_content' = Bound("")
    /\ pc' = "t2_prefix"
    /\ UNCHANGED <<out, requests, completion, stream, delivered, chunk,
                   content, error, ret>>

\* line 59
PrintPrefix ==
    /\ pc = "t2_prefix"
    /\ out' = Append(out, Line("prefix", "Response: "))
    /\ pc' = "t2_for"
    /\ UNCHANGED <<requests, completion, stream, delivered, chunk, content,
                   full_content, error, ret>>

\* line 61: the for statement asks the stream for its next fragment and blocks
RequestNext ==
    /\ pc = "t2_for"
    /\ pc' = "t2_next"
    /\ UNCHANGED <<out, requests, completion, stream, delivered, chunk,
                   content, full_content, error, ret>>

\* line 61: the stream delivers a fragment, which is bound to chunk
YieldFragment(f) ==
    /\ pc = "t2_next"
    /\ stream = "open"
    /\ Len(delivered) < MaxFrags
    /\ delivered' = Append(delivered, f)
    /\ chunk' = Bound(f)
    /\ pc' = "t2_check"
    /\ UNCHANGED <<out, requests, completion, stream, content, full_content,
                   error, ret>>

\* line 61: the stream is exhausted (StopIteration); the loop ends
EndOfStream ==
    /\ pc = "t2_next"
    /\ stream = "open"
    /\ stream' = "exhausted"
    /\ pc' = "t2_ok"
    /\ UNCHANGED <<out, requests, completion, delivered, chunk, content,
                   full_content, error, ret>>

\* line 61: the stream raises (connection drop); control goes to line 68
StreamFault ==
    /\ pc = "t2_next"
    /\ stream = "open"
    /\ stream' = "broken"
    /\ error' = Bound("APIConnectionError")
    /\ pc' = "t2_except"
    /\ UNCHANGED <<out, requests, completion, delivered, chunk, content,
                   full_content, ret>>

\* CheckDelta leaving the loop (break) on a fragment whose content is None.
CheckDelta_BreakOnNone ==
    /\ pc = "t2_check"
    /\ LET choices == Val(chunk).choices IN
       IF Len(choices) = 0
       THEN /\ error' = Bound("IndexError")
            /\ pc' = "t2_except"
       ELSE /\ error' = error
            /\ pc' = IF choices[1].delta.content # None
                     THEN "t2_assign" ELSE "t2_ok"
    /\ UNCHANGED <<out, requests, completion, stream, delivered, chunk,
                   content, full_content, ret>>

\* line 62: chunk.choices[0].delta.content is not None (IndexError on a
\* fragment with no choices)
CheckDelta ==
    /\ pc = "t2_check"
    /\ LET choices == Val(chunk).choices IN
       IF Len(choices) = 0
       THEN /\ error' = Bound("IndexError")
            /\ pc' = "t2_except"
       ELSE /\ error' = error
            /\ pc' = IF choices[1].delta.content # None
                     THEN "t2_assign" ELSE "t2_for"
    /\ UNCHANGED <<out, requests, completion, stream, delivered, chunk,
                   content, full_content, ret>>

\* line 63
AssignContent ==
    /\ pc = "t2_assign"
    /\ content' = Bound(Val(Val(chunk).choices[1].delta.content))
    /\ pc' = "t2_append"
    /\ UNCHANGED <<out, requests, completion, stream, delivered, chunk,
                   full_content, error, ret>>

\* AppendContent assigning (=) instead of appending (+=).
AppendContent_Overwrite ==
    /\ pc = "t2_append"
    /\ full_content' = content
    /\ pc' = "t2_print"
    /\ UNCHANGED <<out, requests, completion, stream, delivered, chunk,
                   content, error, ret>>

\* AppendContent with the operands exchanged: content + full_content.
AppendContent_Prepend ==
    /\ pc = "t2_append"
    /\ full_content' = Bound(Val(content) \o Val(full_content))
    /\ pc' = "t2_print"
    /\ UNCHANGED <<out, requests, completion, stream, delivered, chunk,
                   content, error, ret>>

\* line 64
AppendContent ==
    /\ pc = "t2_append"
    /\ full_content' = Bound(Val(full_content) \o Val(content))
    /\ pc' = "t2_print"
    /\ UNCHANGED <<out, requests, completion, stream, delivered, chunk,
                   content, error, ret>>

\* PrintDelta printing the accumulated text instead of the delta.
PrintDelta_Cumulative ==
    /\ pc = "t2_print"
    /\ out' = Append(out, Line("delta", Val(full_content)))
    /\ pc' = "t2_for"
    /\ UNCHANGED <<requests, completion, stream, delivered, chunk, content,
                   full_content, error, ret>>

\* line 65
PrintDelta ==
    /\ pc = "t2_print"
    /\ out' = Append(out, Line("delta", Val(content)))
    /\ pc' = "t2_for"
    /\ UNCHANGED <<requests, completion, stream, delivered, chunk, content,
                   full_content, error, ret>>

\* PrintSuccess2 preceded by a check that raises on an empty accumulated text.
PrintSuccess2_EmptyIsError ==
    /\ pc = "t2_ok"
    /\ IF Val(full_content) = ""
       THEN /\ error' = Bound("ValueError")
            /\ pc' = "t2_except"
            /\ out' = out
       ELSE /\ out' = Append(out, Line("ok2", "Streaming request successful!"))
            /\ pc' = "final"
            /\ error' = error
    /\ UNCHANGED <<requests, completion, stream, delivered, chunk, content,
                   full_content, ret>>

\* line 67
PrintSuccess2 ==
    /\ pc = "t2_ok"
    /\ out' = Append(out, Line("ok2", "Streaming request successful!"))
    /\ pc' = "final"
    /\ UNCHANGED <<requests, completion, stream, delivered, chunk, content,
                   full_content, error, ret>>

\* Except2 when the success marker stands after the try statement instead of
\* inside it: control falls through to line 67.
Except2_FallThrough ==
    /\ pc = "t2_except"
    /\ out' = Append(out, Line("err", "Error: " \o Val(error)))
    /\ error' = Unbound
    /\ pc' = "t2_ok"
    /\ UNCHANGED <<requests, completion, stream, delivered, chunk, content,
                   full_content, ret>>

\* Except2 reporting a partial success: the text accumulated so far is
\* printed as the response before the failure marker.
Except2_PartialResult ==
    /\ pc = "t2_except"
    /\ out' = out \o
          (IF full_content # Unbound
           THEN <<Line("response", "Response: " \o Val(full_content))>> ELSE <<>>)
          \o <<Line("err", "Error: " \o Val(error))>>
    /\ error' = Unbound
    /\ pc' = "final"
    /\ UNCHANGED <<requests, completion, stream, delivered, chunk, content,
                   full_content, ret>>

\* lines 68-69 (the name error is unbound when the clause ends)
Except2 ==
    /\ pc = "t2_except"
    /\ out' = Append(out, Line("err", "Error: " \o Val(error)))
    /\ error' = Unbound
    /\ pc' = "final"
    /\ UNCHANGED <<requests, completion, stream, delivered, chunk, content,
                   full_content, ret>>

\* line 71, and main() returns (no return statement: None)
PrintFinal ==
    /\ pc = "final"
    /\ out' = Append(out, Line("final", "Check .ai-tests/traces/ for captured traces"))
    /\ ret' = Bound(None)
    /\ pc' = "done"
    /\ UNCHANGED <<requests, completion, stream, delivered, chunk, content,
                   full_content, error>>

\* ------------------------------------------------------- specification
\* The statements of main(): the client's own steps.
ClientNext ==
    \/ PrintBanner
    \/ BeginTest1
    \/ SubmitChat
    \/ PrintResponse
    \/ PrintSuccess1
    \/ Except1
    \/ BeginTest2
    \/ SubmitChatStream
    \/ InitBuffer
    \/ PrintPrefix
    \/ RequestNext
    \/ CheckDelta
    \/ AssignContent
    \/ AppendContent
    \/ PrintDelta
    \/ PrintSuccess2
    \/ Except2
    \/ PrintFinal

\* The transport's answers to the client's blocking calls.
TransportNext ==
    \/ \E r \in Results : ChatReturns(r)
    \/ ChatFault
    \/ StreamOpens
    \/ StreamOpenFault
    \/ \E f \in Fragments : YieldFragment(f)
    \/ EndOfStream
    \/ StreamFault

Next == ClientNext \/ TransportNext

Spec == Init /\ [][Next]_vars

\* The interpreter keeps running main(), and the transport answers every
\* blocking call (the assumption under which termination is claimed).
FairSpec == Spec /\ WF_vars(ClientNext) /\ WF_vars(TransportNext)

\* ------------------------------------------------- observations on a state
Last(s) == s[Len(s)]
IsPrefix(s, t) == Len(s) <= Len(t) /\ SubSeq(t, 1, Len(s)) = s

RECURSIVE Join(_)
\* The concatenation of a sequence of texts, in order.
Join(texts) == IF texts = <<>> THEN "" ELSE texts[1] \o Join(Tail(texts))

\* Positions of the output lines of kind k.
Pos(k) == {i \in DOMAIN out : out[i].k = k}
\* Position of the header of test 2 (past the end while it is not printed).
Header2Pos == IF Pos("header2") = {} THEN Len(out) + 1
              ELSE CHOOSE i \in Pos("header2") : TRUE
\* The success / failure markers of each test.
Test1Markers == {i \in Pos("ok1") \cup Pos("err") : i < Header2Pos}
Test2Markers == {i \in Pos("ok2") \cup Pos("err") : i > Header2Pos}

IsDeltaLine(l) == l.k = "delta"
\* The texts surfaced one by one for the streaming test, in output order.
SurfacedDeltas ==
    LET ls == SelectSeq(out, IsDeltaLine) IN [i \in DOMAIN ls |-> ls[i].text]

HasDelta(f) == f.choices # <<>> /\ f.choices[1].delta.content # None
\* The present content deltas of a fragment sequence, in arrival order.
PresentDeltas(frags) ==
    LET fs == SelectSeq(frags, HasDelta)
    IN  [i \in DOMAIN fs |-> Val(fs[i].choices[1].delta.content)]
AllPresent(frags) == \A i \in DOMAIN frags : HasDelta(frags[i])

\* s with its elements i and i+1 exchanged.
SwapAdjacent(s, i) ==
    [j \in DOMAIN s |-> IF j = i THEN s[i + 1] ELSE IF j = i + 1 THEN s[i] ELSE s[j]]

StreamRequests == {i \in DOMAIN requests : requests[i].stream}

\* A fault has happened during the iteration of the stream: the transport
\* raised on a next-fragment request, or line 62 raised on a fragment with
\* no choices.
IterationFault ==
    \/ stream = "broken"
    \/ /\ delivered # <<>>
       /\ Last(delivered).choices = <<>>
       /\ pc # "t2_check"

\* ---------------------------------------------------------------- claims

\* At most one streaming request, submitted second and only once test 1 has
\* printed exactly one marker; from the streaming call on there is one.
C1_Inv ==
    /\ Cardinality(StreamRequests) <= 1
    /\ StreamRequests # {} =>
          /\ Cardinality(Test1Markers) = 1
          /\ Len(requests) = 2
          /\ ~requests[1].stream
          /\ requests[2].stream
    /\ pc \in {"t2_wait", "t2_init", "t2_prefix", "t2_for", "t2_next", "t2_check",
               "t2_assign", "t2_append", "t2_print", "t2_ok", "t2_except",
               "final", "done"} => Cardinality(StreamRequests) = 1
\* C1: the streaming request is submitted at most once, only after test 1
\* has emitted exactly one marker (success or failure), after the
\* non-streaming request; and every run does submit it, exactly once,
\* whatever the transport answered to the non-streaming call.
C1_StreamAfterTest1 ==
    /\ []C1_Inv
    /\ <>(pc = "done" /\ Cardinality(StreamRequests) = 1)
\* Test 1 failed on a transport fault and the streaming request was submitted.
C1_Witness ==
    /\ pc = "done"
    /\ StreamRequests # {}
    /\ \E i \in Test1Markers : out[i].text = "Error: APIConnectionError"

\* C2 as stated: on exhaustion of a fault-free stream whose fragments all
\* carry a delta, full_content is the concatenation of the deltas in
\* arrival order, and exchanging any two adjacent deltas that differ gives a
\* different text.
C2_SwapAlwaysChanges ==
    (stream = "exhausted" /\ AllPresent(delivered)) =>
        LET d == PresentDeltas(delivered) IN
        /\ Val(full_content) = Join(d)
        /\ \A i \in 1..(Len(d) - 1) :
              d[i] # d[i + 1] => Join(SwapAdjacent(d, i)) # Val(full_content)
\* C2 amended: full_content is the concatenation of the deltas in arrival
\* order, and exchanging two adjacent deltas changes the text exactly when
\* the two do not commute under concatenation ("a" and "aa", or "" and any
\* text, exchange without changing it).
C2_ConcatInOrder ==
    (stream = "exhausted" /\ AllPresent(delivered)) =>
        LET d == PresentDeltas(delivered) IN
        /\ Val(full_content) = Join(d)
        /\ \A i \in 1..(Len(d) - 1) :
              (Join(SwapAdjacent(d, i)) # Val(full_content))
                  <=> (d[i] \o d[i + 1] # d[i + 1] \o d[i])
\* A stream with a commuting pair ("a","aa") and a non-commuting one ("aa","b").
C2_Witness ==
    /\ stream = "exhausted"
    /\ AllPresent(delivered)
    /\ PresentDeltas(delivered) = <<"a", "aa", "b">>
    /\ full_content = Bound("aaab")

\* The step of line 62 on a fragment whose delta content is None.
C3_NullStep ==
    (/\ pc = "t2_check"
     /\ Val(chunk).choices # <<>>
     /\ Val(chunk).choices[1].delta.content = None)
    => (/\ full_content' = full_content
        /\ out' = out
        /\ stream' = stream
        /\ pc' = "t2_for")
\* At the loop head and after the loop.
C3_LoopHead ==
    pc \in {"t2_for", "t2_next", "t2_ok"} =>
        Val(full_content) = Join(PresentDeltas(delivered))
\* C3: a fragment whose delta content is None leaves full_content and the
\* output as they are and sends the loop back to its head (the next fragment
\* is requested); at the loop head and after the loop full_content is the
\* concatenation of the present deltas only, in order.
C3_AbsentDeltaNoOp == [][C3_NullStep]_vars /\ []C3_LoopHead
\* The shape of ["Hello", null, " world"]: present, absent, present.
C3_Witness ==
    /\ stream = "exhausted"
    /\ delivered = <<[choices |-> <<[delta |-> [content |-> Some("a")]]>>],
                     [choices |-> <<[delta |-> [content |-> None]]>>],
                     [choices |-> <<[delta |-> [content |-> Some("b")]]>>]>>
    /\ full_content = Bound("ab")
    /\ SurfacedDeltas = <<"a", "b">>

\* C4: after a fault during iteration the streaming success marker is never
\* printed, the except clause of test 2 prints exactly one failure marker
\* and the final line follows it; nothing carrying the accumulated text is
\* printed after the fault (the output of test 2 is the prefix, the deltas
\* surfaced before the fault, and the failure marker), and main() returns
\* None.
C4_FaultDiscardsPartial ==
    IterationFault =>
        /\ Pos("ok2") = {}
        /\ pc \in {"t2_except", "final", "done"}
        /\ pc = "t2_except" => Test2Markers = {}
        /\ \A i \in DOMAIN out : i > Header2Pos =>
              out[i].k \in {"prefix", "delta", "err", "final"}
        /\ SurfacedDeltas = PresentDeltas(delivered)
        /\ pc \in {"final", "done"} =>
              /\ Cardinality(Test2Markers) = 1
              /\ \A i \in Test2Markers :
                    /\ out[i].text \in {"Error: APIConnectionError", "Error: IndexError"}
                    /\ \A j \in DOMAIN out : j > i => out[j].k = "final"
        /\ pc = "done" => (ret = Bound(None) /\ Last(out).k = "final")
\* The connection dropped after "a" and "b" were accumulated.
C4_Witness ==
    /\ pc = "done"
    /\ stream = "broken"
    /\ full_content = Bound("ab")

\* C5: whenever the next fragment is requested, and when the loop has ended,
\* every present delta delivered so far has been appended to full_content
\* and printed, one output per delta, in arrival order; the streaming
\* success marker comes after all of them.
C5_SurfacedBeforeNext ==
    /\ pc \in {"t2_next", "t2_ok"} =>
          /\ SurfacedDeltas = PresentDeltas(delivered)
          /\ Val(full_content) = Join(PresentDeltas(delivered))
    /\ Pos("ok2") # {} =>
          /\ SurfacedDeltas = PresentDeltas(delivered)
          /\ \A i \in Pos("delta") : \A j \in Pos("ok2") : i < j
\* Two deltas have been surfaced and a third fragment is being requested.
C5_Witness ==
    /\ pc = "t2_next"
    /\ SurfacedDeltas = <<"a", "b">>

\* A result with no choices, or whose first choice has no message.
Malformed(r) == r = <<>> \/ r[1].message = None
\* C6: a result that was transported but is malformed (no choices, or a
\* first choice without a message) makes test 1 fail: no response line and
\* no success marker are printed (so no empty text stands in for the missing
\* content), and the except clause prints exactly one failure marker.
C6_MalformedIsFailure ==
    (completion # Unbound /\ Malformed(Val(completion))) =>
        /\ Pos("ok1") = {}
        /\ Pos("response") = {}
        /\ pc = "t1_print" => Test1Markers = {}
        /\ pc \notin {"t1_print", "t1_except"} =>
              /\ Cardinality(Test1Markers) = 1
              /\ \A i \in Test1Markers :
                    out[i].text \in {"Error: IndexError", "Error: AttributeError"}
\* The first choice has no message although a second, well-formed one exists.
C6_Witness ==
    /\ pc = "done"
    /\ completion = Bound(<<[message |-> None],
                            [message |-> Some([content |-> Some("q")])]>>)

\* A result whose first choice carries a message with a text as content.
WellFormed(r) ==
    r # <<>> /\ r[1].message # None /\ Val(r[1].message).content # None
\* The output of test 1 once a well-formed result has been consumed.
C7_Inv ==
    (completion # Unbound /\ WellFormed(Val(completion)) /\ pc # "t1_print") =>
        /\ Cardinality(Pos("response")) = 1
        /\ \A i \in Pos("response") :
              /\ out[i].text = "Response: " \o Val(Val(Val(completion)[1].message).content)
              /\ IF pc = "t1_ok" THEN i = Len(out) ELSE (i + 1) \in Pos("ok1")
        /\ pc # "t1_ok" => (Test1Markers = Pos("ok1") /\ Cardinality(Pos("ok1")) = 1)
\* No step changes the result once it is bound.
C7_NotMutated == completion # Unbound => completion' = completion
\* C7: once a well-formed result has been consumed, exactly one response
\* line has been printed, it carries the content of choices[0] unchanged
\* (whatever the other choices hold), the success marker of test 1 is the
\* line right after it, and the result bound to completion is never changed
\* (so the text read from it is the same every time).
C7_FirstChoiceVerbatim == []C7_Inv /\ [][C7_NotMutated]_vars
\* Two choices with different contents: the first one is what was printed.
C7_Witness ==
    /\ pc = "done"
    /\ completion = Bound(<<[message |-> Some([content |-> Some("q")])],
                            [message |-> Some([content |-> Some("")])]>>)
    /\ \E i \in Pos("response") : out[i].text = "Response: q"

\* C8: a stream that ends without having delivered any fragment leaves
\* full_content = "" and test 2 ends with its success marker and no failure
\* marker.
C8_EmptyStreamSucceeds ==
    (stream = "exhausted" /\ delivered = <<>>) =>
        /\ full_content = Bound("")
        /\ SurfacedDeltas = <<>>
        /\ pc \in {"t2_ok", "final", "done"}
        /\ \A i \in Test2Markers : out[i].k = "ok2"
        /\ pc \in {"final", "done"} => Cardinality(Test2Markers) = 1
C8_Witness ==
    /\ pc = "done"
    /\ stream = "exhausted"
    /\ delivered = <<>>
    /\ Pos("ok2") # {}

\* At the end of main(): one marker per test, then the final line.
C9_MarkersAtEnd ==
    pc = "done" =>
        /\ Cardinality(Test1Markers) = 1
        /\ Cardinality(Test2Markers) = 1
        /\ Cardinality(Pos("final")) = 1
        /\ Last(out).k = "final"
\* While a call to the transport is pending the client has no step.
C9_Blocked == pc \in {"t1_wait", "t2_wait", "t2_next"} => ~ENABLED ClientNext
\* C9: when the transport answers every blocking call and the stream is
\* finite, main() reaches its end, and at its end the final line is the last
\* output and each test has printed exactly one marker; while a call to the
\* transport is pending the client has no step of its own (no timeout, no
\* cancellation), so a silent transport leaves it blocked.
C9_Terminates == <>(pc = "done") /\ []C9_MarkersAtEnd /\ []C9_Blocked
\* A run that used the whole stream and ended.
C9_Witness ==
    /\ pc = "done"
    /\ stream = "exhausted"
    /\ Len(delivered) = MaxFrags
    /\ Cardinality(Test1Markers) = 1
    /\ Cardinality(Test2Markers) = 1

\* C10 as stated: at every point of the streaming loop (between two fragment
\* requests) the text surfaced so far equals full_content.
C10_EveryPoint ==
    pc \in {"t2_for", "t2_next", "t2_check", "t2_assign", "t2_append", "t2_print"}
        => Join(SurfacedDeltas) = Val(full_content)
\* Surfaced text against the buffer, at every point of main().
C10_Sync ==
    /\ full_content = Unbound => SurfacedDeltas = <<>>
    /\ (full_content # Unbound /\ pc # "t2_print") =>
          Join(SurfacedDeltas) = Val(full_content)
    /\ pc = "t2_print" => Val(full_content) = Join(SurfacedDeltas) \o Val(content)
\* The buffer is created empty.
C10_StartsEmpty ==
    (full_content = Unbound /\ full_content' # Unbound) => full_content' = Bound("")
\* The buffer only grows by appending.
C10_Grows ==
    full_content # Unbound =>
        /\ full_content' # Unbound
        /\ IsPrefix(Val(full_content), Val(full_content'))
\* C10 amended: the text surfaced so far equals full_content at every
\* fragment request and at every other point once the buffer exists, except
\* between the append of line 64 and the print of line 65, where
\* full_content is the surfaced text plus the delta about to be printed;
\* the buffer starts as "" and each value is a prefix of the next; so after
\* a fault during iteration the output holds exactly the accumulated text.
C10_BufferMatchesSurfaced ==
    []C10_Sync /\ [][C10_StartsEmpty /\ C10_Grows]_vars
\* A malformed fragment arrived after "a" and "b" had been accumulated.
C10_Witness ==
    /\ pc = "t2_except"
    /\ delivered # <<>>
    /\ Last(delivered).choices = <<>>
    /\ full_content = Bound("ab")
    /\ SurfacedDeltas = <<"a", "b">>

====
